---- MODULE Spec2Model ----
(***************************************************************************)
(* Model of mta_tracker.py: the arrival extraction and ranking of          *)
(* process_train_times, the express predicate is_express_train, the        *)
(* rendering of display_train_times and the refresh cycle update_displays  *)
(* driven by main.                                                         *)
(*                                                                         *)
(* Python strings that the code inspects character by character (stop_id   *)
(* with endswith, trip_id with lower and a substring test) are sequences   *)
(* of one-character strings.  Strings that are only compared for equality  *)
(* (route_id, direction labels) are TLA+ strings.                          *)
(***************************************************************************)
EXTENDS Integers, Sequences, FiniteSets, TLC

VARIABLES
    \* ---- one call of process_train_times(feed, station_ids, line_type)
    feed,           \* the decoded FeedMessage, or None
    station_ids,    \* list of monitored stop ids
    line_type,      \* "G" or "7"
    current_time,   \* int(time.time()) read at the start of the call
    result,         \* the returned list
    pc,             \* "start" before the call, "done" after it
    \* ---- the refresh cycle of main / update_displays
    g_feed, seven_feed,         \* what fetch_feed returned for each line
    g_now, seven_now,           \* the clock each process_train_times call read
    g_display, seven_display,   \* the markdown blocks written into col1 / col2
    clock,                      \* wall clock, seconds
    tz_offset,                  \* offset of the host's local time zone, seconds
    auto_refresh,               \* the "Auto-refresh" checkbox
    cycle,                      \* refresh cycles run so far
    upc                         \* "update" | "shown"

vars == <<feed, station_ids, line_type, current_time, result, pc,
          g_feed, seven_feed, g_now, seven_now, g_display, seven_display,
          clock, tz_offset, auto_refresh, cycle, upc>>

procVars == <<feed, station_ids, line_type, current_time, result, pc>>
loopVars == <<g_feed, seven_feed, g_now, seven_now, g_display, seven_display,
              clock, tz_offset, auto_refresh, cycle, upc>>

(***************************************************************************)
(* Bounds of the model.                                                    *)
(***************************************************************************)
\* Size of the freely chosen part of a feed: stop-time records plus entities
\* that carry none.
MaxFree == 2
\* Refresh cycles of the auto-refresh loop that are explored.
MaxCycles == 2

(***************************************************************************)
(* Strings                                                                 *)
(***************************************************************************)
UpperAlphabet == <<"A","B","C","D","E","F","G","H","I","J","K","L","M",
                   "N","O","P","Q","R","S","T","U","V","W","X","Y","Z">>
LowerAlphabet == <<"a","b","c","d","e","f","g","h","i","j","k","l","m",
                   "n","o","p","q","r","s","t","u","v","w","x","y","z">>

\* str.lower(), character by character
LowerChar(c) ==
    IF \E i \in DOMAIN UpperAlphabet : UpperAlphabet[i] = c
    THEN LowerAlphabet[CHOOSE i \in DOMAIN UpperAlphabet : UpperAlphabet[i] = c]
    ELSE c

Lower(s) == [i \in DOMAIN s |-> LowerChar(s[i])]

\* needle in hay
Contains(needle, hay) ==
    \E i \in 0..(Len(hay) - Len(needle)) :
        SubSeq(hay, i + 1, i + Len(needle)) = needle

\* s.endswith(c) for a one-character c
EndsWith(s, c) == Len(s) > 0 /\ s[Len(s)] = c

\* x in l, for a Python list l
InList(x, l) == \E i \in DOMAIN l : l[i] = x

(***************************************************************************)
(* Constants of the program                                                *)
(***************************************************************************)
GREENPOINT_AVE_G   == <<"G","2","6","N">>
GREENPOINT_AVE_G_S == <<"G","2","6","S">>
VERNON_JACKSON_7   == <<"7","2","1","N">>
VERNON_JACKSON_7_S == <<"7","2","1","S">>

ExpressRoute  == "7X"
ExpressMarker == <<".",".","e","x","p","r","e","s","s",".",".">>

ManhattanBound == "Manhattan-bound"
FlushingBound  == "Flushing-bound"
ChurchAveBound == "Church Ave-bound"

\* manhattan_bound[:3] + flushing_bound[:3] and sorted(...)[:6]
SevenCap == 3
GCap == 6

\* time.sleep(30)
RefreshSeconds == 30

(***************************************************************************)
(* The feed record model (gtfs_realtime FeedMessage)                       *)
(***************************************************************************)
None == [none |-> TRUE, entity |-> <<>>]
FeedMessage(entities) == [none |-> FALSE, entity |-> entities]

\* A TripDescriptor.  raises = TRUE stands for an object whose attribute
\* access raises, the case the bare except of is_express_train catches.
Trip(route, tid) == [raises |-> FALSE, route_id |-> route, trip_id |-> tid]
BrokenTrip == [raises |-> TRUE, route_id |-> "", trip_id |-> <<>>]

\* A StopTimeUpdate with an arrival, and one without (arrival.time reads 0)
Arrives(sid, t) == [stop_id |-> sid, has_arrival |-> TRUE, arrival |-> [time |-> t]]
NoArrival(sid) == [stop_id |-> sid, has_arrival |-> FALSE, arrival |-> [time |-> 0]]

\* A FeedEntity holding a trip_update, and one holding none
TripEntity(trip, stops) ==
    [has_trip_update |-> TRUE,
     trip_update |-> [trip |-> trip, stop_time_update |-> stops]]
OtherEntity ==
    [has_trip_update |-> FALSE,
     trip_update |-> [trip |-> Trip("", <<>>), stop_time_update |-> <<>>]]

(***************************************************************************)
(* is_express_train                                                        *)
(***************************************************************************)
\* mutant: the trip id is searched without lower-casing it
is_express_train_case_sensitive(trip_update) ==
    IF trip_update.trip.raises
    THEN FALSE
    ELSE \/ trip_update.trip.route_id = ExpressRoute
         \/ Contains(ExpressMarker, trip_update.trip.trip_id)

is_express_train(trip_update) ==
    IF trip_update.trip.raises
    THEN FALSE
    ELSE \/ trip_update.trip.route_id = ExpressRoute
         \/ Contains(ExpressMarker, Lower(trip_update.trip.trip_id))

(***************************************************************************)
(* process_train_times: the extraction loop                                *)
(***************************************************************************)
\* mutant: an arrival at the reference instant itself counts as upcoming
IsUpcomingInclusive(arrival_time, now) == arrival_time >= now

\* arrival_time > current_time
IsUpcoming(arrival_time, now) == arrival_time > now

\* mutant: no direction is suppressed
SkippedNever(line, sid) == FALSE

\* "Skip Court Sq-bound G trains"
Skipped(line, sid) == line = "G" /\ EndsWith(sid, "N")

Direction(line, sid) ==
    IF line = "G" THEN ChurchAveBound
    ELSE IF EndsWith(sid, "N") THEN ManhattanBound ELSE FlushingBound

\* The conditions under which the loop body reaches arrival_times.append
Appends(stop_time, ids, line, now) ==
    /\ InList(stop_time.stop_id, ids)
    /\ stop_time.has_arrival
    /\ IsUpcoming(stop_time.arrival.time, now)
    /\ ~Skipped(line, stop_time.stop_id)

\* The appended tuple (arrival_time, direction, is_express).  src is a ghost
\* field: the position <<entity, stop>> of the record the tuple was made from.
Event(update, stop_time, line, i, j) ==
    [time |-> stop_time.arrival.time,
     direction |-> Direction(line, stop_time.stop_id),
     is_express |-> is_express_train(update),
     src |-> <<i, j>>]

\* for stop_time in update.stop_time_update, from the j-th on
RECURSIVE StopLoop(_, _, _, _, _, _)
StopLoop(update, i, j, ids, line, now) ==
    IF j > Len(update.stop_time_update) THEN <<>>
    ELSE LET stop_time == update.stop_time_update[j]
         IN (IF Appends(stop_time, ids, line, now)
             THEN <<Event(update, stop_time, line, i, j)>>
             ELSE <<>>)
            \o StopLoop(update, i, j + 1, ids, line, now)

\* for entity in feed.entity, from the i-th on
RECURSIVE EntityLoop(_, _, _, _, _)
EntityLoop(entities, i, ids, line, now) ==
    IF i > Len(entities) THEN <<>>
    ELSE (IF entities[i].has_trip_update
          THEN StopLoop(entities[i].trip_update, i, 1, ids, line, now)
          ELSE <<>>)
         \o EntityLoop(entities, i + 1, ids, line, now)

(***************************************************************************)
(* process_train_times: grouping, sorting, truncation                      *)
(***************************************************************************)
\* [x for x in s if x.direction == d]
RECURSIVE Filter(_, _)
Filter(s, d) ==
    IF s = <<>> THEN <<>>
    ELSE (IF Head(s).direction = d THEN <<Head(s)>> ELSE <<>>) \o Filter(Tail(s), d)

\* mutant: an element is placed before the elements of equal key
InsertBeforeEqual(sorted, x) ==
    LET k == Cardinality({i \in DOMAIN sorted : sorted[i].time < x.time})
    IN SubSeq(sorted, 1, k) \o <<x>> \o SubSeq(sorted, k + 1, Len(sorted))

\* One step of a stable sort: x goes after every element whose key is <= its own
Insert(sorted, x) ==
    LET k == Cardinality({i \in DOMAIN sorted : sorted[i].time <= x.time})
    IN SubSeq(sorted, 1, k) \o <<x>> \o SubSeq(sorted, k + 1, Len(sorted))

\* list.sort(key=lambda x: x[0]) / sorted(..., key=lambda x: x[0]): stable
RECURSIVE SortLoop(_, _)
SortLoop(s, n) == IF n = 0 THEN <<>> ELSE Insert(SortLoop(s, n - 1), s[n])

\* mutant: the list is left in feed order
SortByTimeNoSort(s) == s

SortByTime(s) == SortLoop(s, Len(s))

\* mutant: the slice keeps the end of the list, s[-n:]
TakeLast(s, n) == SubSeq(s, (IF Len(s) < n THEN 0 ELSE Len(s) - n) + 1, Len(s))

\* s[:n]
Take(s, n) == SubSeq(s, 1, IF Len(s) < n THEN Len(s) ELSE n)

\* mutant: the slices are missing
RankUncapped(arrival_times, line) ==
    IF line = "7"
    THEN SortByTime(Filter(arrival_times, ManhattanBound))
         \o SortByTime(Filter(arrival_times, FlushingBound))
    ELSE SortByTime(arrival_times)

\* mutant: one sort over both directions of line 7
RankInterleaved(arrival_times, line) ==
    IF line = "7"
    THEN Take(SortByTime(arrival_times), SevenCap + SevenCap)
    ELSE Take(SortByTime(arrival_times), GCap)

\* Lines 213-224
Rank(arrival_times, line) ==
    IF line = "7"
    THEN Take(SortByTime(Filter(arrival_times, ManhattanBound)), SevenCap)
         \o Take(SortByTime(Filter(arrival_times, FlushingBound)), SevenCap)
    ELSE Take(SortByTime(arrival_times), GCap)

process_train_times(f, ids, line, now) ==
    IF f.none THEN <<>>
    ELSE Rank(EntityLoop(f.entity, 1, ids, line, now), line)

(***************************************************************************)
(* display_train_times                                                     *)
(***************************************************************************)
\* datetime.fromtimestamp(t).strftime("%I:%M %p").lstrip("0").lower():
\* the hour of the 12-hour clock as a number (so without a leading zero),
\* the minute, and the lower-case suffix.
FormatTime(t, tz) ==
    LET secs == (t + tz) % 86400
        hour == secs \div 3600
    IN [hour |-> IF hour % 12 = 0 THEN 12 ELSE hour % 12,
        minute |-> (secs % 3600) \div 60,
        suffix |-> IF hour < 12 THEN "am" ELSE "pm"]

NoTime == [hour |-> 0, minute |-> 0, suffix |-> ""]

\* The st.markdown blocks
Header(train_line, station_name) ==
    [kind |-> "header", train_line |-> train_line, text |-> station_name,
     time_str |-> NoTime, express_badge |-> FALSE]
Placeholder(train_line) ==
    [kind |-> "row", train_line |-> train_line, text |-> "No upcoming trains",
     time_str |-> NoTime, express_badge |-> FALSE]
TimeRow(train_line, e, tz) ==
    [kind |-> "row", train_line |-> train_line, text |-> e.direction,
     time_str |-> FormatTime(e.time, tz), express_badge |-> e.is_express]

display_train_times(times, station_name, train_line, tz) ==
    <<Header(train_line, station_name)>>
    \o (IF times = <<>>
        THEN <<Placeholder(train_line)>>
        ELSE [k \in DOMAIN times |-> TimeRow(train_line, times[k], tz)])

(***************************************************************************)
(* Inputs: the feeds the model draws from                                  *)
(***************************************************************************)
LocalTrip(line) == Trip(line, <<line, ".", ".", "N">>)
ExpressRouteTrip == Trip("7X", <<"7", ".", ".", "N">>)
ExpressMarkerTrip ==
    Trip("7", <<"7",".",".","E","X","P","R","E","S","S",".",".","N">>)
\* neither the route ("7x") nor the trip id (single dots) marks an express
NearMissTrip == Trip("7x", <<"7",".","E","X","P","R","E","S","S",".","N">>)

OtherTrips == {ExpressRouteTrip, ExpressMarkerTrip, NearMissTrip, BrokenTrip}

NStop(line) == IF line = "G" THEN GREENPOINT_AVE_G ELSE VERNON_JACKSON_7
SStop(line) == IF line = "G" THEN GREENPOINT_AVE_G_S ELSE VERNON_JACKSON_7_S
\* a stop of the other line, never monitored together with this one
ForeignStop(line) == IF line = "G" THEN VERNON_JACKSON_7_S ELSE GREENPOINT_AVE_G_S

\* The instants process_train_times may read from the clock
Clock == {1000, 1010}

\* Stop-time records of the freely chosen part of a feed.  Arrival instants:
\* 1000 is the earlier clock reading and 10 s before the later one, 1090 is
\* ahead of both, 8211 is more than 120 minutes ahead of both.
RichStops(line) ==
    {Arrives(sid, t) : sid \in {NStop(line), SStop(line)}, t \in {1000, 1090}}
    \cup {NoArrival(SStop(line)), Arrives(SStop(line), 8211)}

SimpleStops(line) == {Arrives(SStop(line), 1090)}

\* Entities of a given size: the number of stop-time records, and 1 for an
\* entity that holds no trip update
EntitiesOfSize(w, line) ==
    (IF w = 1 THEN {OtherEntity} ELSE {})
    \cup {TripEntity(LocalTrip(line), s) : s \in [1..w -> RichStops(line)]}
    \cup {TripEntity(t, s) : t \in OtherTrips, s \in [1..w -> SimpleStops(line)]}

\* Every entity list of total size <= n
RECURSIVE FreeEntities(_, _)
FreeEntities(n, line) ==
    {<<>>} \cup
    UNION {{<<e>> \o rest : e \in EntitiesOfSize(w, line),
                            rest \in FreeEntities(n - w, line)} : w \in 1..n}

\* Background traffic that by itself fills every direction's cap, out of
\* chronological order and with equal instants, among records that do not
\* qualify (a stop of another line, a trip without stops)
Busy(line) ==
    LET n == NStop(line)
        s == SStop(line)
        o == ForeignStop(line)
    IN IF line = "G"
       THEN << TripEntity(LocalTrip("G"), <<Arrives(s, 1120), Arrives(s, 1060)>>),
               TripEntity(ExpressMarkerTrip, <<Arrives(s, 1120)>>),
               TripEntity(LocalTrip("G"),
                          <<Arrives(s, 1180), Arrives(n, 1050), Arrives(s, 1060)>>),
               TripEntity(LocalTrip("7"), <<Arrives(o, 1045)>>),
               TripEntity(LocalTrip("G"), <<Arrives(s, 1180)>>) >>
       ELSE << TripEntity(LocalTrip("7"),
                          <<Arrives(n, 1120), Arrives(s, 1030), Arrives(n, 1060)>>),
               TripEntity(LocalTrip("G"), <<Arrives(o, 1045)>>),
               TripEntity(ExpressRouteTrip, <<Arrives(n, 1120), Arrives(s, 1090)>>),
               TripEntity(LocalTrip("7"), <<>>),
               TripEntity(LocalTrip("7"), <<Arrives(s, 1090)>>) >>

Feeds(line) ==
    {None}
    \cup {FeedMessage(f) : f \in FreeEntities(MaxFree, line)}
    \cup {FeedMessage(Busy(line) \o f) : f \in FreeEntities(MaxFree, line)}
    \cup {FeedMessage(f \o Busy(line)) : f \in FreeEntities(MaxFree, line)}

StationLists(line) ==
    IF line = "G"
    THEN {<<GREENPOINT_AVE_G_S>>, <<GREENPOINT_AVE_G, GREENPOINT_AVE_G_S>>}
    ELSE {<<VERNON_JACKSON_7, VERNON_JACKSON_7_S>>}

LineTypes == {"G", "7"}

(***************************************************************************)
(* One call of process_train_times on drawn inputs                         *)
(***************************************************************************)
LoopIdle ==
    /\ g_feed = None /\ seven_feed = None
    /\ g_now = 0 /\ seven_now = 0
    /\ g_display = <<>> /\ seven_display = <<>>
    /\ clock = 0 /\ tz_offset = 0 /\ auto_refresh = FALSE /\ cycle = 0
    /\ upc = "idle"

InitProcess ==
    /\ line_type \in LineTypes
    /\ station_ids \in StationLists(line_type)
    /\ feed \in Feeds(line_type)
    /\ current_time = 0
    /\ result = <<>>
    /\ pc = "start"
    /\ LoopIdle

ProcessTrainTimes ==
    /\ pc = "start"
    /\ \E now \in Clock :
         /\ current_time' = (IF feed.none THEN current_time ELSE now)
         /\ result' = process_train_times(feed, station_ids, line_type, now)
    /\ pc' = "done"
    /\ UNCHANGED <<feed, station_ids, line_type>>
    /\ UNCHANGED loopVars

NextProcess == ProcessTrainTimes

SpecProcess == InitProcess /\ [][NextProcess]_vars

(***************************************************************************)
(* The refresh cycle: main and update_displays                             *)
(***************************************************************************)
\* What fetch_feed(url) may return: None after a network, status or decode
\* failure, else the decoded message
fetch_feed(line) ==
    {None,
     FeedMessage(<<>>),
     FeedMessage(Busy(line)),
     FeedMessage(<<TripEntity(ExpressRouteTrip, <<Arrives(SStop(line), 1090)>>)>>),
     FeedMessage(<<TripEntity(LocalTrip(line),
                              <<NoArrival(SStop(line)), Arrives(NStop(line), 1000),
                                Arrives(SStop(line), 1000)>>)>>)}

\* Offsets of the host's local time zone: UTC and US Eastern
TimeZones == {0, -18000}

GStations == <<GREENPOINT_AVE_G_S>>
SevenStations == <<VERNON_JACKSON_7, VERNON_JACKSON_7_S>>

\* column 1 of update_displays
Column1(gf, now, tz) ==
    IF ~gf.none
    THEN display_train_times(process_train_times(gf, GStations, "G", now),
                             "Greenpoint Ave", "G", tz)
    ELSE <<>>

\* column 2 of update_displays
Column2(sf, now, tz) ==
    IF ~sf.none
    THEN display_train_times(process_train_times(sf, SevenStations, "7", now),
                             "Vernon-Jackson", "7", tz)
    ELSE <<>>

ProcIdle ==
    /\ feed = None /\ station_ids = <<>> /\ line_type = "G"
    /\ current_time = 0 /\ result = <<>> /\ pc = "idle"

Init ==
    /\ g_feed = None /\ seven_feed = None
    /\ g_now = 0 /\ seven_now = 0
    /\ g_display = <<>> /\ seven_display = <<>>
    /\ clock = 1000
    /\ tz_offset \in TimeZones
    /\ auto_refresh \in BOOLEAN
    /\ cycle = 0
    /\ upc = "update"
    /\ ProcIdle

\* One run of update_displays.  The second process_train_times call may read
\* the clock a second later than the first.
UpdateDisplays ==
    /\ upc = "update"
    /\ \E gf \in fetch_feed("G"), sf \in fetch_feed("7"), d \in {0, 1} :
         /\ g_feed' = gf
         /\ seven_feed' = sf
         /\ g_now' = clock
         /\ seven_now' = clock + d
         /\ g_display' = Column1(gf, clock, tz_offset)
         /\ seven_display' = Column2(sf, clock + d, tz_offset)
         /\ clock' = clock + d
    /\ cycle' = cycle + 1
    /\ upc' = "shown"
    /\ UNCHANGED <<tz_offset, auto_refresh>>
    /\ UNCHANGED procVars

\* while True: ... time.sleep(30); placeholder.empty()
Sleep ==
    /\ upc = "shown"
    /\ auto_refresh
    /\ cycle < MaxCycles
    /\ clock' = clock + RefreshSeconds
    /\ g_display' = <<>>
    /\ seven_display' = <<>>
    /\ upc' = "update"
    /\ g_feed' = None /\ seven_feed' = None
    /\ g_now' = 0 /\ seven_now' = 0
    /\ UNCHANGED <<tz_offset, auto_refresh, cycle>>
    /\ UNCHANGED procVars

Next == UpdateDisplays \/ Sleep

Spec == Init /\ [][Next]_vars

(***************************************************************************)
(* Properties of one call of process_train_times (SpecProcess).            *)
(* The definitions below state the claims on their own terms: they read    *)
(* the feed and the result, and use none of the operators above that model *)
(* the body of process_train_times.                                        *)
(***************************************************************************)
Done == pc = "done"

\* The stop-time record and the trip update an event was made from
RecordAt(p) == feed.entity[p[1]].trip_update.stop_time_update[p[2]]
UpdateAt(p) == feed.entity[p[1]].trip_update

\* Every position <<entity, stop>> of a stop-time record of the feed
Positions ==
    UNION {{<<i, j>> : j \in DOMAIN feed.entity[i].trip_update.stop_time_update} :
           i \in DOMAIN feed.entity}

\* p comes before q in feed order
Precedes(p, q) == p[1] < q[1] \/ (p[1] = q[1] /\ p[2] < q[2])

LastChar(sid) == IF sid = <<>> THEN "" ELSE sid[Len(sid)]

Monitored(p) == \E n \in DOMAIN station_ids : station_ids[n] = RecordAt(p).stop_id

\* "qualifying": station identifier in the requested set, arrival present,
\* instant after now, not excluded by the line's direction rule
Qualifying(p) ==
    /\ Monitored(p)
    /\ RecordAt(p).has_arrival
    /\ RecordAt(p).arrival.time > current_time
    /\ ~(line_type = "G" /\ LastChar(RecordAt(p).stop_id) = "N")

LabelOf(p) ==
    IF line_type = "G" THEN "Church Ave-bound"
    ELSE IF LastChar(RecordAt(p).stop_id) = "N" THEN "Manhattan-bound"
    ELSE "Flushing-bound"

QualifyingOf(d) == {p \in Positions : Qualifying(p) /\ LabelOf(p) = d}

CapOf(d) == IF d = "Church Ave-bound" THEN 6 ELSE 3

Labels == IF line_type = "G" THEN {"Church Ave-bound"}
          ELSE {"Manhattan-bound", "Flushing-bound"}

\* The indices of the result that carry label d, and how many there are
IndicesOf(d) == {k \in DOMAIN result : result[k].direction = d}
CountOf(d) == Cardinality(IndicesOf(d))

\* C1: every returned event has an arrival instant strictly after the instant
\* read at the start of the call, and so has the record it was made from: a
\* record at or before that instant never appears in the result.
C1_StrictlyAfterNow ==
    Done => \A k \in DOMAIN result :
                /\ result[k].time > current_time
                /\ RecordAt(result[k].src).arrival.time = result[k].time

\* C1 witness: a monitored record 10 s in the past and a monitored record in
\* the future were in the feed, and events were returned.
C1_Witness ==
    /\ Done
    /\ result # <<>>
    /\ \E p, q \in Positions :
         /\ Monitored(p) /\ RecordAt(p).has_arrival
         /\ RecordAt(p).arrival.time = current_time - 10
         /\ Monitored(q) /\ RecordAt(q).has_arrival
         /\ RecordAt(q).arrival.time > current_time

\* C2: no returned event has an arrival instant greater than now + 120
\* minutes.
C2_WithinLookAhead ==
    Done => \A k \in DOMAIN result : result[k].time <= current_time + 120 * 60

\* C3: per direction label the number of returned events never exceeds the
\* cap: 3 Manhattan-bound and 3 Flushing-bound (6 in total) for line 7, and
\* 6 Church Ave-bound for line G.
C3_Caps ==
    Done =>
      /\ line_type = "7" =>
           /\ CountOf("Manhattan-bound") <= 3
           /\ CountOf("Flushing-bound") <= 3
           /\ Len(result) <= 6
      /\ line_type = "G" =>
           /\ CountOf("Church Ave-bound") <= 6
           /\ Len(result) <= 6

\* C3 witness: the feed holds more qualifying records than the cap in both
\* directions of line 7, and the result is full.
C3_Witness ==
    /\ Done
    /\ line_type = "7"
    /\ Cardinality(QualifyingOf("Manhattan-bound")) > 3
    /\ Cardinality(QualifyingOf("Flushing-bound")) > 3
    /\ Len(result) = 6

\* C4: the events of each direction label appear with non-decreasing arrival
\* instants, whatever order the records had in the feed.
C4_SortedWithinDirection ==
    Done => \A k, l \in DOMAIN result :
                (k < l /\ result[k].direction = result[l].direction)
                    => result[k].time <= result[l].time

\* C4 witness: two same-direction records, the first in feed order at
\* now + 120 s and the second at now + 60 s, come out as [+60 s, +120 s].
C4_Witness ==
    /\ Done
    /\ \E k, l \in DOMAIN result :
         /\ k < l
         /\ result[k].direction = result[l].direction
         /\ Precedes(result[l].src, result[k].src)
         /\ result[k].time = current_time + 60
         /\ result[l].time = current_time + 120

\* C5: for line 7 every Manhattan-bound event precedes every Flushing-bound
\* event in the returned list.
C5_ManhattanFirst ==
    (Done /\ line_type = "7") =>
        \A k, l \in DOMAIN result :
            (result[k].direction = "Manhattan-bound"
             /\ result[l].direction = "Flushing-bound") => k < l

\* C5 witness: a Flushing-bound event sooner than every Manhattan-bound
\* event is returned together with Manhattan-bound events.
C5_Witness ==
    /\ Done
    /\ line_type = "7"
    /\ IndicesOf("Manhattan-bound") # {}
    /\ \E l \in IndicesOf("Flushing-bound") :
         \A k \in IndicesOf("Manhattan-bound") : result[l].time < result[k].time

\* C6: for line G no record whose station identifier ends in "N" is emitted,
\* and every returned event is labelled Church Ave-bound.
C6_NoNorthboundG ==
    (Done /\ line_type = "G") =>
        \A k \in DOMAIN result :
            /\ result[k].direction = "Church Ave-bound"
            /\ LastChar(RecordAt(result[k].src).stop_id) # "N"

\* C6 witness: line G is asked for a station list that holds the "N" stop,
\* the feed has a future arrival at it, and events are returned.
C6_Witness ==
    /\ Done
    /\ line_type = "G"
    /\ result # <<>>
    /\ \E p \in Positions :
         /\ Monitored(p)
         /\ LastChar(RecordAt(p).stop_id) = "N"
         /\ RecordAt(p).has_arrival
         /\ RecordAt(p).arrival.time > current_time

\* Two characters that are the same letter in either case
SameLetter(a, b) ==
    \/ a = b
    \/ \E i \in DOMAIN UpperAlphabet :
         {a, b} = {UpperAlphabet[i], LowerAlphabet[i]}

\* The trip id holds "..express.." in any mix of cases
HasMarker(tid) ==
    \E off \in 0..Len(tid) :
        /\ off + 11 <= Len(tid)
        /\ \A i \in 1..11 :
             SameLetter(tid[off + i],
                        <<".",".","e","x","p","r","e","s","s",".",".">>[i])

ExpectedExpress(update) ==
    /\ ~update.trip.raises
    /\ (update.trip.route_id = "7X" \/ HasMarker(update.trip.trip_id))

\* C7: is_express of an emitted event is true exactly when the route id is
\* "7X" or the trip id holds the express marker in any case; it is false
\* when evaluating the predicate raises, and the event is emitted all the same:
\* every direction returns as many events as it has qualifying records, up to
\* its cap.
C7_ExpressFlag ==
    Done =>
      /\ \A k \in DOMAIN result :
           result[k].is_express = ExpectedExpress(UpdateAt(result[k].src))
      /\ \A d \in Labels :
           CountOf(d) = (IF Cardinality(QualifyingOf(d)) < CapOf(d)
                         THEN Cardinality(QualifyingOf(d)) ELSE CapOf(d))

\* C7 witness: one returned event comes from a trip whose fields raise (flag
\* false) and another from a trip marked only by an upper-case marker in its
\* trip id (flag true).
C7_Witness ==
    /\ Done
    /\ \E k, l \in DOMAIN result :
         /\ UpdateAt(result[k].src).trip.raises
         /\ ~result[k].is_express
         /\ ~UpdateAt(result[l].src).trip.raises
         /\ UpdateAt(result[l].src).trip.route_id # "7X"
         /\ result[l].is_express

\* C9: ranking is idempotent: the grouping, sorting and truncation step
\* applied to the returned list gives that list back, element for element.
C9_RankIdempotent ==
    Done => Rank(result, line_type) = result

\* C9 witness: the returned list is truncated to the cap and holds two events
\* of one direction with equal instants.
C9_Witness ==
    /\ Done
    /\ \E d \in Labels :
         /\ Cardinality(QualifyingOf(d)) > CapOf(d)
         /\ \E k, l \in IndicesOf(d) : k < l /\ result[k].time = result[l].time

\* q is ahead of p in the stable ascending order by instant
Ahead(q, p) ==
    \/ RecordAt(q).arrival.time < RecordAt(p).arrival.time
    \/ (RecordAt(q).arrival.time = RecordAt(p).arrival.time /\ Precedes(q, p))

\* the place of p among the qualifying records of its direction
PlaceOf(p, d) == Cardinality({q \in QualifyingOf(d) : Ahead(q, p)}) + 1

\* the place of index k of the result among the indices of its direction
PlaceInResult(k) ==
    Cardinality({l \in IndicesOf(result[k].direction) : l <= k})

\* C10: the events returned for each direction are exactly the first cap
\* elements of the stable ascending sort of all qualifying records of that
\* direction in feed order.
C10_ExactlyFirstCap ==
    Done =>
      /\ \A k \in DOMAIN result :
           /\ result[k].direction \in Labels
           /\ result[k].src \in QualifyingOf(result[k].direction)
           /\ result[k].time = RecordAt(result[k].src).arrival.time
           /\ PlaceOf(result[k].src, result[k].direction) = PlaceInResult(k)
      /\ \A d \in Labels :
           CountOf(d) = (IF Cardinality(QualifyingOf(d)) < CapOf(d)
                         THEN Cardinality(QualifyingOf(d)) ELSE CapOf(d))

\* C10 witness: a monitored record without an arrival is followed in the same
\* trip by a record that is returned, in a direction with more qualifying
\* records than its cap, and an equal-instant qualifying record was left out.
C10_Witness ==
    /\ Done
    /\ \E k \in DOMAIN result :
         LET p == result[k].src
             d == result[k].direction
         IN /\ \E q \in Positions :
                 /\ q[1] = p[1] /\ q[2] < p[2]
                 /\ Monitored(q) /\ ~RecordAt(q).has_arrival
            /\ Cardinality(QualifyingOf(d)) > CapOf(d)
            /\ \E l \in IndicesOf(d), q \in QualifyingOf(d) :
                 /\ RecordAt(q).arrival.time = result[l].time
                 /\ \A m \in DOMAIN result : result[m].src # q

(***************************************************************************)
(* Properties of the refresh cycle (Spec)                                  *)
(***************************************************************************)
ShowsPlaceholder(display) ==
    \E k \in DOMAIN display :
        display[k].kind = "row" /\ display[k].text = "No upcoming trains"

\* C8: in every refresh cycle, for each line independently: when the line's
\* feed is unavailable or yields no qualifying events its display shows the
\* "No upcoming trains" placeholder, and the other line is rendered from its
\* own feed alone.
C8_PlaceholderPerLine ==
    upc = "shown" =>
      /\ (g_feed.none \/ process_train_times(g_feed, GStations, "G", g_now) = <<>>)
            => ShowsPlaceholder(g_display)
      /\ (seven_feed.none
          \/ process_train_times(seven_feed, SevenStations, "7", seven_now) = <<>>)
            => ShowsPlaceholder(seven_display)
      /\ ~g_feed.none =>
            g_display = display_train_times(
                process_train_times(g_feed, GStations, "G", g_now),
                "Greenpoint Ave", "G", tz_offset)
      /\ ~seven_feed.none =>
            seven_display = display_train_times(
                process_train_times(seven_feed, SevenStations, "7", seven_now),
                "Vernon-Jackson", "7", tz_offset)

====
